---- MODULE Spec2Model ----
(***************************************************************************)
(* Six-Degrees: the semantic word graph (backend/app/semantic_graph.py),   *)
(* its bounded breadth-first search and the game service built on it       *)
(* (backend/app/game_service.py).                                          *)
(*                                                                         *)
(* Strings are sequences of one-character strings, so that lower() and     *)
(* strip() are computed character by character.  An embedding is a vector  *)
(* of integers whose squared norm is NormSq; the unit vector of the code   *)
(* is that vector divided by sqrt(NormSq).  Similarities and the           *)
(* threshold are integers in hundredths (0.49 is 49).                      *)
(***************************************************************************)
EXTENDS Integers, Sequences, FiniteSets, TLC

VARIABLES
    embedding_service,  \* EmbeddingService: the loaded model, word -> vector
    word_database,      \* WordDatabase: words, the catalog of valid words
    semantic_graph,     \* SemanticGraph: word_embeddings, graph, similarity_cache, similarity_threshold
    ret,                \* the call whose response is in flight: operation, arguments, returned value
    frame,              \* the locals of the get_random_word_pair call that is running, or None
    routes              \* routes.py: the global _game_service, the GameService objects built,
                        \* and each request thread's place in get_game_service

vars == <<embedding_service, word_database, semantic_graph, ret, frame, routes>>

----------------------------------------------------------------------------
(* Bounds of the exploration *)

\* longest list handed to add_words
MaxBatch == 2
\* largest max_steps argument handed to bfs_path
MaxStepsArg == 2
\* most pairs the similarity cache holds in an explored state of the graph
\* driven through its own interface
MaxCache == 1
\* max_words of _preload_words, scaled to the catalog of the game model
PreloadWords == 9

----------------------------------------------------------------------------
(* Optional values: None is the empty tuple, Some(x) the one-element tuple *)

None == <<>>
Some(x) == <<x>>

----------------------------------------------------------------------------
(* str.lower(), str.strip(), the order of str used by sorted() *)

Alphabet ==
    << "a", "b", "c", "d", "e", "f", "g", "h", "i", "j", "k", "l", "m",
       "n", "o", "p", "q", "r", "s", "t", "u", "v", "w", "x", "y", "z" >>

UpperAlphabet ==
    << "A", "B", "C", "D", "E", "F", "G", "H", "I", "J", "K", "L", "M",
       "N", "O", "P", "Q", "R", "S", "T", "U", "V", "W", "X", "Y", "Z" >>

\* the characters of the strings handled
Chars ==
    { Alphabet[i] : i \in 1..Len(Alphabet) }
        \cup { UpperAlphabet[i] : i \in 1..Len(UpperAlphabet) }
        \cup { " ", ",", "_" }

IsUpperChar(c) == \E i \in 1..Len(UpperAlphabet) : UpperAlphabet[i] = c

IsLowerChar(c) == \E i \in 1..Len(Alphabet) : Alphabet[i] = c

\* ord(c) for every character
CharCodes ==
    [c \in Chars |->
        IF IsUpperChar(c)
        THEN 64 + CHOOSE i \in 1..Len(UpperAlphabet) : UpperAlphabet[i] = c
        ELSE IF IsLowerChar(c)
        THEN 96 + CHOOSE i \in 1..Len(Alphabet) : Alphabet[i] = c
        ELSE CASE c = " " -> 32 [] c = "," -> 44 [] c = "_" -> 95]

\* ord(c)
CharCode(c) == CharCodes[c]

\* c.lower() for every character
LowerChars ==
    [c \in Chars |->
        IF IsUpperChar(c)
        THEN Alphabet[CHOOSE i \in 1..Len(UpperAlphabet) : UpperAlphabet[i] = c]
        ELSE c]

LowerChar(c) == LowerChars[c]

\* c.upper() for every character
UpperChars ==
    [c \in Chars |->
        IF IsLowerChar(c)
        THEN UpperAlphabet[CHOOSE i \in 1..Len(Alphabet) : Alphabet[i] = c]
        ELSE c]

UpperChar(c) == UpperChars[c]

lower(s) == [i \in 1..Len(s) |-> LowerChar(s[i])]

IsSpace(c) == c = " "

RECURSIVE lstrip(_)
lstrip(s) == IF s # <<>> /\ IsSpace(Head(s)) THEN lstrip(Tail(s)) ELSE s

RECURSIVE rstrip(_)
rstrip(s) ==
    IF s # <<>> /\ IsSpace(s[Len(s)]) THEN rstrip(SubSeq(s, 1, Len(s) - 1)) ELSE s

strip(s) == rstrip(lstrip(s))

\* word.lower().strip()
Normalize(word) == strip(lower(word))

\* str.upper()
upper(s) == [i \in 1..Len(s) |-> UpperChar(s[i])]

\* s[:n], counting from the end of s when n is negative
SliceTo(s, n) ==
    LET stop == IF n < 0 THEN Len(s) + n ELSE n
    IN SubSeq(s, 1, IF stop > Len(s) THEN Len(s) ELSE IF stop < 0 THEN 0 ELSE stop)

\* c * n
Repeat(c, n) == [i \in 1..n |-> c]

\* s.split(sep)
RECURSIVE split(_, _)
split(s, sep) ==
    IF \A i \in 1..Len(s) : s[i] # sep THEN << s >>
    ELSE LET i == CHOOSE j \in 1..Len(s) :
                    s[j] = sep /\ \A k \in 1..(j - 1) : s[k] # sep
         IN << SubSeq(s, 1, i - 1) >> \o split(SubSeq(s, i + 1, Len(s)), sep)

\* [f(x) for x in seq if x]: the elements of seq that are not empty
RECURSIVE NonEmpty(_)
NonEmpty(seq) ==
    IF seq = << >> THEN << >>
    ELSE (IF seq[1] = << >> THEN << >> ELSE << seq[1] >>) \o NonEmpty(Tail(seq))

\* s < t for Python str: lexicographic by code point
RECURSIVE StrLess(_, _)
StrLess(s, t) ==
    IF t = <<>> THEN FALSE
    ELSE IF s = <<>> THEN TRUE
    ELSE IF CharCode(Head(s)) # CharCode(Head(t))
         THEN CharCode(Head(s)) < CharCode(Head(t))
         ELSE StrLess(Tail(s), Tail(t))

\* the pair in the order given
PairAsGiven(word1, word2) == <<word1, word2>>

\* tuple(sorted([word1, word2]))
SortedPair(word1, word2) ==
    IF StrLess(word2, word1) THEN <<word2, word1>> ELSE <<word1, word2>>

----------------------------------------------------------------------------
(* Embeddings *)

\* number of coordinates of an embedding
embedding_dim == 10

RECURSIVE SumProd(_, _, _)
SumProd(vec1, vec2, i) ==
    IF i = 0 THEN 0 ELSE vec1[i] * vec2[i] + SumProd(vec1, vec2, i - 1)

\* the vector with ones at coordinates p and q
TwoHot(p, q) == [i \in 1..embedding_dim |-> IF i = p \/ i = q THEN 1 ELSE 0]

\* squared norm of every vector the models below return
NormSq == SumProd(TwoHot(1, 2), TwoHot(1, 2), embedding_dim)

\* np.dot of the two unit vectors, in hundredths
np_dot(vec1, vec2) == (100 * SumProd(vec1, vec2, Len(vec1))) \div NormSq

\* the words the graph operations are called with, before normalisation
RawWords == { <<"a">>, <<"b">>, <<"c">>, <<"A", " ">> }

Words == { Normalize(w) : w \in RawWords }

\* a - b - c in a chain
ChainModel ==
    [w \in Words |->
        CASE w = <<"a">> -> TwoHot(1, 2) [] w = <<"b">> -> TwoHot(2, 3)
          [] w = <<"c">> -> TwoHot(3, 4)]

\* a and b similar, c similar to neither
IslandModel ==
    [w \in Words |->
        CASE w = <<"a">> -> TwoHot(1, 2) [] w = <<"b">> -> TwoHot(1, 3)
          [] w = <<"c">> -> TwoHot(4, 5)]

Models == { ChainModel, IslandModel }

\* EmbeddingService.encode: one vector per text, in order
encode(es, texts) == [i \in 1..Len(texts) |-> es.model[texts[i]]]

\* EmbeddingService.encode_word
encode_word(es, word) == encode(es, <<word>>)[1]

----------------------------------------------------------------------------
(* dict and defaultdict(set) *)

DictSet(d, k, v) == [x \in (DOMAIN d) \cup {k} |-> IF x = k THEN v ELSE d[x]]

\* self.graph.get(word, set())
GraphGet(graph, word) == IF word \in DOMAIN graph THEN graph[word] ELSE {}

\* AddEdges without the second add: only self.graph[u].add(v)
AddEdgesOneWay(graph, edges) ==
    LET touched == { e[1] : e \in edges }
    IN [w \in (DOMAIN graph) \cup touched |->
            GraphGet(graph, w) \cup { e[2] : e \in { f \in edges : f[1] = w } }]

\* for every pair <<u, v>> of edges: self.graph[u].add(v); self.graph[v].add(u)
AddEdges(graph, edges) ==
    LET both == edges \cup { <<e[2], e[1]>> : e \in edges }
        touched == { e[1] : e \in both }
    IN [w \in (DOMAIN graph) \cup touched |->
            GraphGet(graph, w) \cup { e[2] : e \in { f \in both : f[1] = w } }]

----------------------------------------------------------------------------
(* SemanticGraph *)

\* SemanticGraph.__init__
NewSemanticGraph(threshold) ==
    [ similarity_threshold |-> threshold,
      word_embeddings      |-> <<>>,
      graph                |-> <<>>,
      similarity_cache     |-> <<>> ]

word_exists(sg, word) == Normalize(word) \in DOMAIN sg.word_embeddings

get_all_words(sg) == DOMAIN sg.word_embeddings

\* _update_connections building the adjacency anew from the edges of new_word
_update_connections_anew(sg, new_word) ==
    LET new_embedding == sg.word_embeddings[new_word]
        existing_words == { w \in DOMAIN sg.word_embeddings : w # new_word }
        edges == { <<new_word, w>> : w \in
                     { x \in existing_words :
                         np_dot(sg.word_embeddings[x], new_embedding)
                             >= sg.similarity_threshold } }
    IN [sg EXCEPT !.graph = AddEdges(<< >>, edges)]

\* edges from new_word to every other known word at or above the threshold
_update_connections(sg, new_word) ==
    LET new_embedding == sg.word_embeddings[new_word]
        existing_words == { w \in DOMAIN sg.word_embeddings : w # new_word }
        edges == { <<new_word, w>> : w \in
                     { x \in existing_words :
                         np_dot(sg.word_embeddings[x], new_embedding)
                             >= sg.similarity_threshold } }
    IN [sg EXCEPT !.graph = AddEdges(sg.graph, edges)]

\* add_word also joining the neighbours of the new word to each other
add_word_joining_neighbours(es, sg, word) ==
    LET word_lower == Normalize(word)
        added == _update_connections(
                    [sg EXCEPT !.word_embeddings =
                        DictSet(sg.word_embeddings, word_lower, encode_word(es, word_lower))],
                    word_lower)
        around == GraphGet(added.graph, word_lower)
    IN IF word_lower \in DOMAIN sg.word_embeddings
       THEN sg
       ELSE [added EXCEPT !.graph =
                AddEdges(added.graph, { p \in around \X around : p[1] # p[2] })]

\* the graph after add_word(word)
add_word(es, sg, word) ==
    LET word_lower == Normalize(word)
    IN IF word_lower \in DOMAIN sg.word_embeddings
       THEN sg
       ELSE _update_connections(
                [sg EXCEPT !.word_embeddings =
                    DictSet(sg.word_embeddings, word_lower, encode_word(es, word_lower))],
                word_lower)

\* the value add_word(word) returns: the embedding stored for the word
add_word_result(es, sg, word) == add_word(es, sg, word).word_embeddings[Normalize(word)]

\* add_word asking the provider for the embedding of every word it is given
add_word_encoded_always(sg, word) == << Normalize(word) >>

\* the texts add_word(word) hands to the embedding provider, in order
add_word_encoded(sg, word) ==
    LET word_lower == Normalize(word)
    IN IF word_lower \in DOMAIN sg.word_embeddings
       THEN << >>
       ELSE << word_lower >>

\* edges among the new words and from them to the words known before
_batch_update_connections(sg, new_words) ==
    LET n == Len(new_words)
        emb(w) == sg.word_embeddings[w]
        in_new(w) == \E i \in 1..n : new_words[i] = w
        existing_words == { w \in DOMAIN sg.word_embeddings : ~in_new(w) }
        connected(u, v) == np_dot(emb(u), emb(v)) >= sg.similarity_threshold
        only_new == { <<new_words[i], new_words[j]>> : <<i, j>> \in
                        { p \in (1..n) \X (1..n) :
                            p[1] # p[2] /\ connected(new_words[p[1]], new_words[p[2]]) } }
        new_existing == { <<new_words[i], w>> : <<i, w>> \in
                        { p \in (1..n) \X existing_words :
                            connected(new_words[p[1]], p[2]) } }
        new_new == { <<new_words[i], new_words[j]>> : <<i, j>> \in
                        { p \in (1..n) \X (1..n) :
                            p[1] < p[2] /\ connected(new_words[p[1]], new_words[p[2]]) } }
    IN IF n = 0 THEN sg
       ELSE IF existing_words = {}
            THEN [sg EXCEPT !.graph = AddEdges(sg.graph, only_new)]
            ELSE [sg EXCEPT !.graph = AddEdges(sg.graph, new_existing \cup new_new)]

\* the normalised words of the list that are not known yet, duplicates kept
RECURSIVE WordsToAdd(_, _)
WordsToAdd(sg, words) ==
    IF words = <<>> THEN <<>>
    ELSE LET word_lower == Normalize(Head(words))
         IN IF word_lower \notin DOMAIN sg.word_embeddings
            THEN <<word_lower>> \o WordsToAdd(sg, Tail(words))
            ELSE WordsToAdd(sg, Tail(words))

\* the graph after add_words(words)
add_words(es, sg, words) ==
    LET words_to_add == WordsToAdd(sg, words)
        embeddings_batch == encode(es, words_to_add)
        stored == [w \in (DOMAIN sg.word_embeddings)
                            \cup { words_to_add[i] : i \in 1..Len(words_to_add) } |->
                     IF \E i \in 1..Len(words_to_add) : words_to_add[i] = w
                     THEN embeddings_batch[
                            CHOOSE i \in 1..Len(words_to_add) :
                                /\ words_to_add[i] = w
                                /\ \A j \in 1..Len(words_to_add) :
                                       words_to_add[j] = w => j <= i]
                     ELSE sg.word_embeddings[w]]
    IN IF words_to_add = <<>> THEN sg
       ELSE _batch_update_connections(
                [sg EXCEPT !.word_embeddings = stored], words_to_add)

\* the dict add_words(words) returns
add_words_result(es, sg, words) ==
    LET words_to_add == WordsToAdd(sg, words)
        after == add_words(es, sg, words)
    IN IF words_to_add = <<>>
       THEN [w \in { Normalize(words[i]) : i \in 1..Len(words) } |-> sg.word_embeddings[w]]
       ELSE [w \in { words_to_add[i] : i \in 1..Len(words_to_add) } |->
                after.word_embeddings[w]]

\* add_word storing an empty entry for the word before it asks the provider
add_word_raised_after_store(sg, word) ==
    [sg EXCEPT !.word_embeddings = DictSet(sg.word_embeddings, Normalize(word), << >>)]

\* the graph add_word(word) leaves when encode_word raises: the call is the
\* first statement after the lookup, before any assignment
add_word_raised(sg, word) == sg

\* the graph add_words(words) leaves when encode raises: words_to_add is a
\* local list and the call comes before the embeddings are stored
add_words_raised(sg, words) == sg

\* the batches add_words(words) hands to the embedding provider, in order
add_words_encoded(sg, words) ==
    IF WordsToAdd(sg, words) = << >> THEN << >> ELSE << WordsToAdd(sg, words) >>

cosine_similarity(vec1, vec2) == np_dot(vec1, vec2)

\* the graph after get_similarity(word1, word2)
get_similarity(es, sg, word1, word2) ==
    LET word1_lower == Normalize(word1)
        word2_lower == Normalize(word2)
        cache_key == SortedPair(word1_lower, word2_lower)
        sg1 == IF word1_lower \notin DOMAIN sg.word_embeddings
               THEN add_word(es, sg, word1_lower) ELSE sg
        sg2 == IF word2_lower \notin DOMAIN sg1.word_embeddings
               THEN add_word(es, sg1, word2_lower) ELSE sg1
        similarity == cosine_similarity(sg2.word_embeddings[word1_lower],
                                        sg2.word_embeddings[word2_lower])
    IN IF cache_key \in DOMAIN sg.similarity_cache
       THEN sg
       ELSE [sg2 EXCEPT !.similarity_cache =
                DictSet(sg2.similarity_cache, cache_key, similarity)]

\* the value get_similarity(word1, word2) returns
get_similarity_result(es, sg, word1, word2) ==
    get_similarity(es, sg, word1, word2).similarity_cache[
        SortedPair(Normalize(word1), Normalize(word2))]

\* are_connected changes the graph as get_similarity does
are_connected(es, sg, word1, word2) == get_similarity(es, sg, word1, word2)

are_connected_result(es, sg, word1, word2) ==
    get_similarity_result(es, sg, word1, word2) >= sg.similarity_threshold

\* the graph after get_neighbors(word)
get_neighbors(es, sg, word) ==
    LET word_lower == Normalize(word)
    IN IF word_lower \notin DOMAIN sg.word_embeddings
       THEN add_word(es, sg, word_lower) ELSE sg

get_neighbors_result(es, sg, word) ==
    GraphGet(get_neighbors(es, sg, word).graph, Normalize(word))

----------------------------------------------------------------------------
(* bfs_path *)

\* every order in which the elements of a set can be iterated
RECURSIVE Orderings(_)
Orderings(S) ==
    IF S = {} THEN { <<>> }
    ELSE UNION { { <<x>> \o rest : rest \in Orderings(S \ {x}) } : x \in S }

\* bfs_loop returning the path without the target appended
RECURSIVE bfs_loop_no_append(_, _, _, _, _)
bfs_loop_no_append(graph, target, max_steps, queue, visited) ==
    IF queue = <<>> THEN { None }
    ELSE LET current_word == queue[1][1]
             path == queue[1][2]
             steps_taken == Len(path) - 1
             neighbors == GraphGet(graph, current_word)
             fresh == neighbors \ visited
         IN IF steps_taken > max_steps
            THEN bfs_loop_no_append(graph, target, max_steps, Tail(queue), visited)
            ELSE IF target \in neighbors
            THEN { Some(path) }
            ELSE UNION {
                    bfs_loop_no_append(graph, target, max_steps,
                             Tail(queue) \o [i \in 1..Len(order) |->
                                               <<order[i], path \o <<order[i]>> >>],
                             visited \cup fresh)
                    : order \in Orderings(fresh) }

\* The while loop of bfs_path: the set of values it can return, over every
\* iteration order of the neighbour sets.  When the target is among the
\* neighbours the for loop returns path + [target] whatever the order; else
\* the order decides only the order in which the unvisited neighbours are
\* enqueued.
RECURSIVE bfs_loop(_, _, _, _, _)
bfs_loop(graph, target, max_steps, queue, visited) ==
    IF queue = <<>> THEN { None }
    ELSE LET current_word == queue[1][1]
             path == queue[1][2]
             steps_taken == Len(path) - 1
             neighbors == GraphGet(graph, current_word)
             fresh == neighbors \ visited
         IN IF steps_taken > max_steps
            THEN bfs_loop(graph, target, max_steps, Tail(queue), visited)
            ELSE IF target \in neighbors
            THEN { Some(path \o <<target>>) }
            ELSE UNION {
                    bfs_loop(graph, target, max_steps,
                             Tail(queue) \o [i \in 1..Len(order) |->
                                               <<order[i], path \o <<order[i]>> >>],
                             visited \cup fresh)
                    : order \in Orderings(fresh) }

\* the graph after bfs_path(start_word, target_word, max_steps)
bfs_path(es, sg, start_word, target_word) ==
    LET start == Normalize(start_word)
        target == Normalize(target_word)
        sg1 == IF ~word_exists(sg, start) THEN add_word(es, sg, start) ELSE sg
        sg2 == IF ~word_exists(sg1, target) THEN add_word(es, sg1, target) ELSE sg1
    IN sg2

\* bfs_path_results with the path begun at the start word as it was given
bfs_path_results_as_given(es, sg, start_word, target_word, max_steps) ==
    LET start == Normalize(start_word)
        target == Normalize(target_word)
        after == bfs_path(es, sg, start_word, target_word)
    IN IF start = target THEN { Some(<<start_word>>) }
       ELSE bfs_loop(after.graph, target, max_steps,
                     << <<start, <<start_word>> >> >>, {start})

\* the values bfs_path(start_word, target_word, max_steps) can return
bfs_path_results(es, sg, start_word, target_word, max_steps) ==
    LET start == Normalize(start_word)
        target == Normalize(target_word)
        after == bfs_path(es, sg, start_word, target_word)
    IN IF start = target THEN { Some(<<start>>) }
       ELSE bfs_loop(after.graph, target, max_steps,
                     << <<start, <<start>> >> >>, {start})

\* The for loop of bfs_path over the neighbours in one order: the words it
\* appends to the queue before it returns or runs out, and whether it returned
RECURSIVE bfs_for_loop(_, _, _, _)
bfs_for_loop(order, target, visited, appended) ==
    IF order = <<>> THEN [found |-> FALSE, appended |-> appended]
    ELSE IF order[1] = target THEN [found |-> TRUE, appended |-> appended]
    ELSE IF order[1] \notin visited
    THEN bfs_for_loop(Tail(order), target, visited \cup {order[1]},
                      appended \o <<order[1]>>)
    ELSE bfs_for_loop(Tail(order), target, visited, appended)

\* The while loop of bfs_path: the sequences of words it can append to the
\* queue in one run, in the order appended, following log
RECURSIVE bfs_appended(_, _, _, _, _, _)
bfs_appended(graph, target, max_steps, queue, visited, log) ==
    IF queue = <<>> THEN { log }
    ELSE LET current_word == queue[1][1]
             path == queue[1][2]
             steps_taken == Len(path) - 1
             neighbors == GraphGet(graph, current_word)
         IN IF steps_taken > max_steps
            THEN bfs_appended(graph, target, max_steps, Tail(queue), visited, log)
            ELSE UNION {
                    IF r.found THEN { log \o r.appended }
                    ELSE bfs_appended(graph, target, max_steps,
                            Tail(queue) \o [i \in 1..Len(r.appended) |->
                                <<r.appended[i], path \o <<r.appended[i]>> >>],
                            visited \cup { r.appended[i] : i \in 1..Len(r.appended) },
                            log \o r.appended)
                    : r \in { bfs_for_loop(order, target, visited, <<>>)
                              : order \in Orderings(neighbors) } }

\* the words one run of bfs_path(start_word, target_word, max_steps) on a
\* graph that knows both words can put in its queue, the start word included
bfs_path_appended(sg, start_word, target_word, max_steps) ==
    LET start == Normalize(start_word)
        target == Normalize(target_word)
    IN IF start = target THEN { <<>> }
       ELSE bfs_appended(sg.graph, target, max_steps,
                         << <<start, <<start>> >> >>, {start}, <<start>>)

----------------------------------------------------------------------------
(* WordDatabase *)

\* WordDatabase.word_exists
db_word_exists(db, word) == Normalize(word) \in db.words

\* sorted(list(S))
RECURSIVE Sorted(_)
Sorted(S) ==
    IF S = {} THEN <<>>
    ELSE LET m == CHOOSE x \in S : \A y \in S : ~StrLess(y, x)
         IN <<m>> \o Sorted(S \ {m})

\* WordDatabase.get_all_words
db_get_all_words(db) == Sorted(db.words)

----------------------------------------------------------------------------
(* GameService *)

\* the longest and the shortest player path, in steps
MaxPathSteps == 6
MinPathSteps == 2

validate_word(db, word) == db_word_exists(db, word)

\* find_optimal_path putting the words in the graph before validating them
find_optimal_path_add_first(es, db, sg, start_word, target_word) ==
    LET sg1 == IF ~word_exists(sg, start_word)
               THEN add_word(es, sg, start_word) ELSE sg
        sg2 == IF ~word_exists(sg1, target_word)
               THEN add_word(es, sg1, target_word) ELSE sg1
    IN IF ~validate_word(db, start_word) \/ ~validate_word(db, target_word)
       THEN sg2
       ELSE bfs_path(es, sg2, start_word, target_word)

\* find_optimal_path: the graph after the call
find_optimal_path(es, db, sg, start_word, target_word) ==
    IF ~validate_word(db, start_word) \/ ~validate_word(db, target_word)
    THEN sg
    ELSE LET sg1 == IF ~word_exists(sg, start_word)
                    THEN add_word(es, sg, start_word) ELSE sg
             sg2 == IF ~word_exists(sg1, target_word)
                    THEN add_word(es, sg1, target_word) ELSE sg1
         IN bfs_path(es, sg2, start_word, target_word)

\* find_optimal_path_results searching no further than the neighbours of the
\* start word
find_optimal_path_results_near(es, db, sg, start_word, target_word, max_steps) ==
    IF ~validate_word(db, start_word) \/ ~validate_word(db, target_word)
    THEN { None }
    ELSE bfs_path_results(es, find_optimal_path(es, db, sg, start_word, target_word),
                          start_word, target_word, 0)

\* find_optimal_path: the values the call can return
find_optimal_path_results(es, db, sg, start_word, target_word, max_steps) ==
    IF ~validate_word(db, start_word) \/ ~validate_word(db, target_word)
    THEN { None }
    ELSE bfs_path_results(es, find_optimal_path(es, db, sg, start_word, target_word),
                          start_word, target_word, max_steps)

\* HasDuplicates without lower(): words compared as written
HasDuplicatesAsWritten(path) ==
    Len(path) # Cardinality({ path[i] : i \in 1..Len(path) })

\* len(path) != len(set(word.lower() for word in path))
HasDuplicates(path) ==
    Len(path) # Cardinality({ lower(path[i]) : i \in 1..Len(path) })

\* the first word of the path that validate_word rejects, if any
FirstUnknown(db, path) ==
    LET bad == { i \in 1..Len(path) : ~validate_word(db, path[i]) }
    IN IF bad = {} THEN 0 ELSE CHOOSE i \in bad : \A j \in bad : i <= j

\* the connection loop of validate_path from pair i on: the graph at the end
\* and the returned pair
RECURSIVE check_connections(_, _, _, _)
check_connections(es, sg, path, i) ==
    IF i > Len(path) - 1
    THEN [sg |-> sg, ok |-> TRUE, message |-> None]
    ELSE LET word1 == Normalize(path[i])
             word2 == Normalize(path[i + 1])
             sg1 == IF ~word_exists(sg, word1) THEN add_word(es, sg, word1) ELSE sg
             sg2 == IF ~word_exists(sg1, word2) THEN add_word(es, sg1, word2) ELSE sg1
             sg3 == are_connected(es, sg2, word1, word2)
         IN IF ~are_connected_result(es, sg2, word1, word2)
            THEN [sg |-> get_similarity(es, sg3, word1, word2),
                  ok |-> FALSE,
                  message |-> Some([kind |-> "not_connected",
                                    word1 |-> word1, word2 |-> word2,
                                    similarity |->
                                        get_similarity_result(es, sg3, word1, word2)])]
            ELSE check_connections(es, sg3, path, i + 1)

\* validate_path: the graph after the call, is_valid and error_message
validate_path(es, db, sg, path) ==
    LET steps == Len(path) - 1
    IN IF Len(path) < 1
       THEN [sg |-> sg, ok |-> FALSE, message |-> Some([kind |-> "empty"])]
       ELSE IF steps < MinPathSteps
       THEN [sg |-> sg, ok |-> FALSE, message |-> Some([kind |-> "too_short"])]
       ELSE IF steps > MaxPathSteps
       THEN [sg |-> sg, ok |-> FALSE, message |-> Some([kind |-> "too_long"])]
       ELSE IF HasDuplicates(path)
       THEN [sg |-> sg, ok |-> FALSE, message |-> Some([kind |-> "duplicate"])]
       ELSE IF FirstUnknown(db, path) # 0
       THEN [sg |-> sg, ok |-> FALSE,
             message |-> Some([kind |-> "not_in_database",
                               word |-> path[FirstUnknown(db, path)]])]
       ELSE check_connections(es, sg, path, 1)

\* score_for with the difference taken the wrong way round
score_for_flipped(player_steps, algorithm_steps) ==
    LET step_difference == algorithm_steps - player_steps
        steps == [player_steps |-> player_steps, algorithm_steps |-> algorithm_steps]
    IN IF step_difference < 0
       THEN [score |-> 120, message |-> [kind |-> "beat_algorithm"] @@ steps]
       ELSE IF step_difference = 0
       THEN [score |-> 100, message |-> [kind |-> "perfect"] @@ steps]
       ELSE IF step_difference = 1
       THEN [score |-> 90, message |-> [kind |-> "plus_1"] @@ steps]
       ELSE IF step_difference = 2
       THEN [score |-> 80, message |-> [kind |-> "plus_2"] @@ steps]
       ELSE IF step_difference = 3
       THEN [score |-> 60, message |-> [kind |-> "plus_3"] @@ steps]
       ELSE [score |-> 50, message |-> [kind |-> "completed"] @@ steps]

\* the score and the message of a completed path
score_for(player_steps, algorithm_steps) ==
    LET step_difference == player_steps - algorithm_steps
        steps == [player_steps |-> player_steps, algorithm_steps |-> algorithm_steps]
    IN IF step_difference < 0
       THEN [score |-> 120, message |-> [kind |-> "beat_algorithm"] @@ steps]
       ELSE IF step_difference = 0
       THEN [score |-> 100, message |-> [kind |-> "perfect"] @@ steps]
       ELSE IF step_difference = 1
       THEN [score |-> 90, message |-> [kind |-> "plus_1"] @@ steps]
       ELSE IF step_difference = 2
       THEN [score |-> 80, message |-> [kind |-> "plus_2"] @@ steps]
       ELSE IF step_difference = 3
       THEN [score |-> 60, message |-> [kind |-> "plus_3"] @@ steps]
       ELSE [score |-> 50, message |-> [kind |-> "completed"] @@ steps]

\* EndpointDiffers on the words as written
EndpointDiffersAsWritten(path_word, word) == path_word # word

\* path[0].lower().strip() != start_word.lower().strip()
EndpointDiffers(path_word, word) == Normalize(path_word) # Normalize(word)

\* calculate_score from the return of validate_path on: v is what validate_path
\* returned and first_paths the reference paths the search before it can return
score_validated(es, db, v, first_paths, player_path, start_word, target_word) ==
    IF ~v.ok
    THEN { [sg |-> v.sg, score |-> 0, message |-> v.message[1],
            algorithm_path |-> p] : p \in first_paths }
    ELSE IF EndpointDiffers(player_path[1], start_word)
    THEN { [sg |-> v.sg, score |-> 0,
            message |-> [kind |-> "must_start", word |-> start_word],
            algorithm_path |-> p] : p \in first_paths }
    ELSE IF EndpointDiffers(player_path[Len(player_path)], target_word)
    THEN { [sg |-> v.sg, score |-> 0,
            message |-> [kind |-> "must_end", word |-> target_word],
            algorithm_path |-> p] : p \in first_paths }
    ELSE { IF p = None
           THEN [sg |-> find_optimal_path(es, db, v.sg, start_word, target_word),
                 score |-> 120,
                 message |-> [kind |-> "no_algorithm_path"],
                 algorithm_path |-> p]
           ELSE [sg |-> find_optimal_path(es, db, v.sg, start_word, target_word),
                 score |-> score_for(Len(player_path) - 1, Len(p[1]) - 1).score,
                 message |-> score_for(Len(player_path) - 1, Len(p[1]) - 1).message,
                 algorithm_path |-> p]
           : p \in find_optimal_path_results(es, db, v.sg, start_word, target_word,
                                             MaxPathSteps) }

\* calculate_score dropping the reference path of a path scored 0
calculate_score_no_reference(es, db, sg, player_path, start_word, target_word) ==
    score_validated(es, db,
        validate_path(es, db, find_optimal_path(es, db, sg, start_word, target_word),
                      player_path),
        { None }, player_path, start_word, target_word)

\* calculate_score: every (graph after the call, score, message,
\* algorithm_path) the call can end with: the reference search, validate_path
\* on the graph it left, then the scoring
calculate_score(es, db, sg, player_path, start_word, target_word) ==
    score_validated(es, db,
        validate_path(es, db, find_optimal_path(es, db, sg, start_word, target_word),
                      player_path),
        find_optimal_path_results(es, db, sg, start_word, target_word, MaxPathSteps),
        player_path, start_word, target_word)

\* the words _preload_words loads: every catalog word, or a sample of max_words
words_to_load(db, max_words) ==
    IF Cardinality(db.words) > max_words
    THEN { Sorted(S) : S \in { T \in SUBSET db.words : Cardinality(T) = max_words } }
    ELSE { db_get_all_words(db) }

----------------------------------------------------------------------------
(* routes.get_hint *)

\* max_steps of the search from the current position
HintMaxSteps == 6

\* best_similarity before the first neighbour is scanned: -1.0 in hundredths
LowestSimilarity == -100

\* [w.strip() for w in current_path.split(',') if w.strip()], or [] when
\* current_path is empty
parse_current_path(current_path) ==
    IF current_path = << >> THEN << >>
    ELSE LET parts == split(current_path, ",")
         IN NonEmpty([i \in 1..Len(parts) |-> strip(parts[i])])

\* set([start_word.lower()] + [w.lower() for w in current_words])
used_words(start_word, current_words) ==
    { lower(start_word) } \cup { lower(current_words[i]) : i \in 1..Len(current_words) }

\* the first word of optimal_from_here[1:] whose lower() is not a used word
first_unused(optimal_from_here, used) ==
    LET unused == { i \in 2..Len(optimal_from_here) :
                        lower(optimal_from_here[i]) \notin used }
    IN IF unused = {} THEN None
       ELSE Some(optimal_from_here[CHOOSE i \in unused : \A j \in unused : i <= j])

\* the scan of the neighbours in one order: the graph after the similarity
\* calls and the unused neighbour of greatest similarity to the target
RECURSIVE scan_neighbors(_, _, _, _, _, _, _)
scan_neighbors(es, sg, order, used, target_word, best_neighbor, best_similarity) ==
    IF order = << >> THEN [sg |-> sg, best_neighbor |-> best_neighbor]
    ELSE IF lower(order[1]) \in used
    THEN scan_neighbors(es, sg, Tail(order), used, target_word,
                        best_neighbor, best_similarity)
    ELSE LET sim == get_similarity_result(es, sg, order[1], target_word)
             after == get_similarity(es, sg, order[1], target_word)
         IN IF sim > best_similarity
            THEN scan_neighbors(es, after, Tail(order), used, target_word,
                                Some(order[1]), sim)
            ELSE scan_neighbors(es, after, Tail(order), used, target_word,
                                best_neighbor, best_similarity)

\* the progressive letter reveal of hint_word at hint_level
reveal(hint_word, hint_level) ==
    LET letters_to_reveal ==
            IF hint_level < Len(hint_word) THEN hint_level ELSE Len(hint_word)
    IN IF letters_to_reveal >= Len(hint_word)
       THEN [masked_word |-> upper(hint_word), fully_revealed |-> TRUE,
             message |-> [kind |-> "the_word_is", word |-> upper(hint_word)]]
       ELSE [masked_word |-> upper(SliceTo(hint_word, letters_to_reveal))
                                \o Repeat("_", Len(hint_word) - letters_to_reveal),
             fully_revealed |-> FALSE,
             message |-> [kind |-> "revealing", letters |-> letters_to_reveal]]

\* a response of get_hint without a hint word
no_hint(sg, status, message, steps_remaining) ==
    [sg |-> sg, status |-> status, word |-> None, masked_word |-> None,
     word_length |-> None, fully_revealed |-> FALSE, message |-> message,
     steps_remaining |-> steps_remaining]

\* the response of get_hint for hint_word, which may be None
hint_data(sg, hint_word, hint_level, steps_remaining) ==
    IF hint_word = None
    THEN no_hint(sg, "200", [kind |-> "continue"], steps_remaining)
    ELSE LET r == reveal(hint_word[1], hint_level)
         IN [sg |-> sg, status |-> "200", word |-> hint_word,
             masked_word |-> Some(r.masked_word),
             word_length |-> Some(Len(hint_word[1])),
             fully_revealed |-> r.fully_revealed, message |-> r.message,
             steps_remaining |-> steps_remaining]

\* the neighbour fallback of get_hint: the responses over every iteration
\* order of the neighbours
hint_from_neighbors(es, sg, current_position, target_word, used, hint_level, steps_remaining) ==
    LET neighbors == get_neighbors_result(es, sg, lower(current_position))
        sg1 == get_neighbors(es, sg, lower(current_position))
    IN IF neighbors = {}
       THEN { hint_data(sg1, None, hint_level, steps_remaining) }
       ELSE { LET scan == scan_neighbors(es, sg1, order, used, target_word,
                                         None, LowestSimilarity)
              IN hint_data(scan.sg, scan.best_neighbor, hint_level, steps_remaining)
              : order \in Orderings(neighbors) }

\* get_hint: the responses the request can get, each with the graph it leaves
get_hint(es, db, sg, start_word, target_word, current_path, hint_level) ==
    IF start_word = << >> \/ target_word = << >>
    THEN { no_hint(sg, "400", [kind |-> "required"], None) }
    ELSE
    LET current_words == parse_current_path(current_path)
        used == used_words(start_word, current_words)
        last == current_words[Len(current_words)]
    IN IF current_words # << >> /\ lower(last) = lower(target_word)
       THEN { no_hint(sg, "200", [kind |-> "reached"], None) }
       ELSE
       LET current_position == IF current_words = << >> THEN start_word ELSE last
           sg1 == find_optimal_path(es, db, sg, current_position, target_word)
       IN UNION {
            IF optimal_from_here = None \/ Len(optimal_from_here[1]) < 2
            THEN { no_hint(sg1, "404", [kind |-> "no_path"], None) }
            ELSE LET hint_word == first_unused(optimal_from_here[1], used)
                     steps_remaining == Some(Len(optimal_from_here[1]) - 1)
                 IN IF hint_word # None
                    THEN { hint_data(sg1, hint_word, hint_level, steps_remaining) }
                    ELSE hint_from_neighbors(es, sg1, current_position, target_word,
                                             used, hint_level, steps_remaining)
            : optimal_from_here \in
                find_optimal_path_results(es, db, sg, current_position, target_word,
                                          HintMaxSteps) }

----------------------------------------------------------------------------
(* routes.py: the lazily built GameService *)

\* the request threads that can be inside get_game_service at once
MaxThreads == 3
Threads == 1..MaxThreads

\* routes.py as imported: _game_service is None, no request has arrived.
\* A GameService object is named by the order of its construction.
NoService ==
    [_game_service |-> None, constructed |-> 0,
     pc |-> [t \in Threads |-> "idle"],
     local |-> [t \in Threads |-> None],
     returned |-> [t \in Threads |-> None]]

\* routes.py after one request built the service and every request returned
ServiceReady == [NoService EXCEPT !._game_service = Some(1), !.constructed = 1]

----------------------------------------------------------------------------
(* The graph driven through its own interface *)

\* GameService.__init__ default
DefaultThreshold == 49

SeqsUpTo(S, n) == UNION { [1..k -> S] : k \in 0..n }

CacheRoom(sg, word1, word2) ==
    \/ SortedPair(Normalize(word1), Normalize(word2)) \in DOMAIN sg.similarity_cache
    \/ Cardinality(DOMAIN sg.similarity_cache) < MaxCache

\* no response in flight
Idle == [op |-> "idle"]

Init ==
    /\ embedding_service \in { [model |-> m] : m \in Models }
    /\ word_database = [words |-> {}]
    /\ semantic_graph = NewSemanticGraph(DefaultThreshold)
    /\ ret = Idle
    /\ frame = None
    /\ routes = NoService

AddWord ==
    /\ ret = Idle
    /\ \E word \in RawWords :
        /\ semantic_graph' = add_word(embedding_service, semantic_graph, word)
        /\ ret' = [op |-> "add_word", word |-> word,
                   result |-> add_word_result(embedding_service, semantic_graph, word),
                   encoded |-> add_word_encoded(semantic_graph, word)]
        /\ UNCHANGED <<embedding_service, word_database, frame, routes>>

AddWords ==
    /\ ret = Idle
    /\ \E words \in SeqsUpTo(RawWords, MaxBatch) :
        /\ semantic_graph' = add_words(embedding_service, semantic_graph, words)
        /\ ret' = [op |-> "add_words", words |-> words,
                   result |-> add_words_result(embedding_service, semantic_graph, words)]
        /\ UNCHANGED <<embedding_service, word_database, frame, routes>>

GetSimilarity ==
    /\ ret = Idle
    /\ \E word1 \in RawWords, word2 \in RawWords :
        /\ CacheRoom(semantic_graph, word1, word2)
        /\ semantic_graph' = get_similarity(embedding_service, semantic_graph, word1, word2)
        /\ ret' = [op |-> "get_similarity", word1 |-> word1, word2 |-> word2,
                   result |-> get_similarity_result(embedding_service, semantic_graph,
                                                    word1, word2)]
        /\ UNCHANGED <<embedding_service, word_database, frame, routes>>

AreConnected ==
    /\ ret = Idle
    /\ \E word1 \in RawWords, word2 \in RawWords :
        /\ CacheRoom(semantic_graph, word1, word2)
        /\ semantic_graph' = are_connected(embedding_service, semantic_graph, word1, word2)
        /\ ret' = [op |-> "are_connected", word1 |-> word1, word2 |-> word2,
                   result |-> are_connected_result(embedding_service, semantic_graph,
                                                   word1, word2)]
        /\ UNCHANGED <<embedding_service, word_database, frame, routes>>

GetNeighbors ==
    /\ ret = Idle
    /\ \E word \in RawWords :
        /\ semantic_graph' = get_neighbors(embedding_service, semantic_graph, word)
        /\ ret' = [op |-> "get_neighbors", word |-> word,
                   result |-> get_neighbors_result(embedding_service, semantic_graph, word)]
        /\ UNCHANGED <<embedding_service, word_database, frame, routes>>

BfsPath ==
    /\ ret = Idle
    /\ \E start_word \in RawWords, target_word \in RawWords, max_steps \in 0..MaxStepsArg :
        \E result \in bfs_path_results(embedding_service, semantic_graph,
                                       start_word, target_word, max_steps) :
            /\ semantic_graph' = bfs_path(embedding_service, semantic_graph,
                                          start_word, target_word)
            /\ ret' = [op |-> "bfs_path", start_word |-> start_word,
                       target_word |-> target_word, max_steps |-> max_steps,
                       result |-> result]
            /\ UNCHANGED <<embedding_service, word_database, frame, routes>>

\* the caller takes the response; the next call can start
Return ==
    /\ ret # Idle
    /\ ret' = Idle
    /\ UNCHANGED <<embedding_service, word_database, semantic_graph, frame, routes>>

Next ==
    \/ Return
    \/ AddWord
    \/ AddWords
    \/ GetSimilarity
    \/ AreConnected
    \/ GetNeighbors
    \/ BfsPath

Spec == Init /\ [][Next]_vars

----------------------------------------------------------------------------
(* The graph with an embedding provider that can raise *)

\* add_word of an unknown word, the provider raising: the exception leaves
\* add_word, which catches nothing
AddWordRaises ==
    /\ ret = Idle
    /\ \E word \in RawWords :
        /\ add_word_encoded(semantic_graph, word) # << >>
        /\ semantic_graph' = add_word_raised(semantic_graph, word)
        /\ ret' = [op |-> "add_word", word |-> word, raised |-> TRUE,
                   encoded |-> add_word_encoded(semantic_graph, word)]
        /\ UNCHANGED <<embedding_service, word_database, frame, routes>>

\* add_words with at least one unknown word, the provider raising
AddWordsRaises ==
    /\ ret = Idle
    /\ \E words \in SeqsUpTo(RawWords, MaxBatch) :
        /\ add_words_encoded(semantic_graph, words) # << >>
        /\ semantic_graph' = add_words_raised(semantic_graph, words)
        /\ ret' = [op |-> "add_words", words |-> words, raised |-> TRUE,
                   encoded |-> add_words_encoded(semantic_graph, words)]
        /\ UNCHANGED <<embedding_service, word_database, frame, routes>>

FaultNext ==
    \/ Next
    \/ AddWordRaises
    \/ AddWordsRaises

FaultSpec == Init /\ [][FaultNext]_vars

----------------------------------------------------------------------------
(* The game service after construction, driven through its interface *)

\* a - b - c - d - e - f - g - h - a in a ring; k next to a, h, f and g;
\* y next to no catalog word; x, not a catalog word, next to a, b and y
GameModel ==
    (<<"a">> :> TwoHot(1, 2)) @@ (<<"b">> :> TwoHot(2, 3)) @@
    (<<"c">> :> TwoHot(3, 4)) @@ (<<"d">> :> TwoHot(4, 5)) @@
    (<<"e">> :> TwoHot(5, 6)) @@ (<<"f">> :> TwoHot(6, 7)) @@
    (<<"g">> :> TwoHot(7, 8)) @@ (<<"h">> :> TwoHot(8, 1)) @@
    (<<"k">> :> TwoHot(1, 7)) @@ (<<"y">> :> TwoHot(9, 10)) @@
    (<<"x">> :> TwoHot(2, 9))

Catalog == (DOMAIN GameModel) \ { <<"x">> }

Ring == << <<"a">>, <<"b">>, <<"c">>, <<"d">>, <<"e">>, <<"f">>, <<"g">>, <<"h">> >>

\* the paths players submit: the ring from a cut at every length, the ring
\* from b to g, and paths with a repeated, an unknown or an unconnected word
PlayerPaths ==
    { SubSeq(Ring, 1, n) : n \in 0..Len(Ring) }
    \cup { SubSeq(Ring, 2, Len(Ring) - 1) }
    \cup { << <<"a">>, <<"b">>, <<"A">> >>,
           << <<"a">>, <<"b">>, <<"a", " ">> >>,
           << <<"A", " ">>, <<"b">>, <<"c">> >>,
           << <<"a">>, <<"x">>, <<"b">> >>,
           << <<"a">>, <<"A">>, <<"x">> >>,
           << <<"a">>, <<"x">>, <<"y">> >>,
           << <<"a">>, <<"b">>, <<"y">> >>,
           << <<"a">>, <<"k">>, <<"g">> >> }

\* the words games are played between, as the caller writes them
GameStarts == { <<"a">>, <<"A", " ">>, <<"b">>, <<"x">>, <<"y">> }

GameTargets ==
    { <<"c">>, <<"d">>, <<"e">>, <<"f">>, <<"g">>, <<" ", "G">>, <<"x">>, <<"y">> }

\* the start words a path is scored against: its own first word, and words
\* written differently or different from it
ScoreStarts(path) ==
    (IF path = <<>> THEN {} ELSE { path[1] }) \cup { <<"A", " ">>, <<"x">> }

ScoreTargets(path) ==
    (IF path = <<>> THEN {} ELSE { path[Len(path)] }) \cup { <<" ", "G">>, <<"y">> }

GameInit ==
    /\ embedding_service = [model |-> GameModel]
    /\ word_database = [words |-> Catalog]
    /\ \E words \in words_to_load(word_database, PreloadWords) :
            semantic_graph = add_words(embedding_service,
                                       NewSemanticGraph(DefaultThreshold), words)
    /\ ret = Idle
    /\ frame = None
    /\ routes = ServiceReady

FindOptimalPath ==
    /\ ret = Idle
    /\ \E start_word \in GameStarts, target_word \in GameTargets,
          max_steps \in {MaxStepsArg, MaxPathSteps} :
        \E result \in find_optimal_path_results(embedding_service, word_database,
                            semantic_graph, start_word, target_word, max_steps) :
            /\ semantic_graph' = find_optimal_path(embedding_service, word_database,
                                    semantic_graph, start_word, target_word)
            /\ ret' = [op |-> "find_optimal_path", start_word |-> start_word,
                       target_word |-> target_word, max_steps |-> max_steps,
                       result |-> result]
            /\ UNCHANGED <<embedding_service, word_database, frame, routes>>

ValidatePath ==
    /\ ret = Idle
    /\ \E path \in PlayerPaths :
        \E v \in { validate_path(embedding_service, word_database, semantic_graph, path) } :
           /\ semantic_graph' = v.sg
           /\ ret' = [op |-> "validate_path", path |-> path,
                      ok |-> v.ok, message |-> v.message]
           /\ UNCHANGED <<embedding_service, word_database, frame, routes>>

CalculateScore ==
    /\ ret = Idle
    /\ \E player_path \in PlayerPaths :
       \E start_word \in ScoreStarts(player_path),
          target_word \in ScoreTargets(player_path) :
        \E r \in calculate_score(embedding_service, word_database, semantic_graph,
                                 player_path, start_word, target_word) :
            /\ semantic_graph' = r.sg
            /\ ret' = [op |-> "calculate_score", player_path |-> player_path,
                       start_word |-> start_word, target_word |-> target_word,
                       score |-> r.score, message |-> r.message,
                       algorithm_path |-> r.algorithm_path]
            /\ UNCHANGED <<embedding_service, word_database, frame, routes>>

GameNext ==
    \/ Return
    \/ FindOptimalPath
    \/ ValidatePath
    \/ CalculateScore

GameSpec == GameInit /\ [][GameNext]_vars

----------------------------------------------------------------------------
(* get_random_word_pair, one loop iteration at a time *)

\* attempts over the words in the graph
max_attempts == 40
\* attempts over the whole catalog
fallback_attempts == 20
\* the catalog words sampled from when the graph is empty
graph_fallback_words == 100
\* max_steps of the searches
PairMaxSteps == 6
\* the steps of an accepted path
AcceptMinSteps == 2
AcceptMaxSteps == 6

common_pairs ==
    << << <<"c", "a", "t">>, <<"d", "o", "g">> >>,
       << <<"c", "a", "t">>, <<"a", "n", "i", "m", "a", "l">> >>,
       << <<"d", "o", "g">>, <<"p", "e", "t">> >>,
       << <<"b", "i", "r", "d">>, <<"a", "n", "i", "m", "a", "l">> >>,
       << <<"t", "r", "e", "e">>, <<"p", "l", "a", "n", "t">> >>,
       << <<"f", "l", "o", "w", "e", "r">>, <<"p", "l", "a", "n", "t">> >>,
       << <<"c", "a", "r">>, <<"v", "e", "h", "i", "c", "l", "e">> >>,
       << <<"h", "o", "u", "s", "e">>, <<"b", "u", "i", "l", "d", "i", "n", "g">> >>,
       << <<"b", "o", "o", "k">>, <<"r", "e", "a", "d">> >>,
       << <<"h", "a", "p", "p", "y">>, <<"j", "o", "y">> >>,
       << <<"s", "a", "d">>, <<"e", "m", "o", "t", "i", "o", "n">> >>,
       << <<"r", "e", "d">>, <<"c", "o", "l", "o", "r">> >> >>

\* "if path:" followed by "if 2 <= steps <= 6:", accepting any path found
accepted_any(path) ==
    /\ path # None
    /\ path[1] # <<>>

\* "if path:" followed by "if 2 <= steps <= 6:"
accepted(path) ==
    /\ path # None
    /\ path[1] # <<>>
    /\ AcceptMinSteps <= Len(path[1]) - 1
    /\ Len(path[1]) - 1 <= AcceptMaxSteps

\* the locals when get_random_word_pair enters its first loop
new_frame(db, sg) ==
    LET all_words == db_get_all_words(db)
        in_graph == get_all_words(sg)
    IN [phase |-> "graph", attempt |-> 0, all_words |-> all_words,
        words_in_graph |->
            IF in_graph = {}
            THEN { all_words[i] : i \in 1..(IF Len(all_words) < graph_fallback_words
                                            THEN Len(all_words)
                                            ELSE graph_fallback_words) }
            ELSE in_graph]

\* the end of a loop iteration in a loop that starts over when its range is
\* used up
next_iteration_restart(f, limit, next_phase) ==
    IF f.attempt + 1 < limit
    THEN [f EXCEPT !.attempt = @ + 1]
    ELSE [f EXCEPT !.attempt = 0]

\* the end of a loop iteration that did not return: the next iteration, or
\* the first iteration of the next loop once the range is used up
next_iteration(f, limit, next_phase) ==
    IF f.attempt + 1 < limit
    THEN [f EXCEPT !.attempt = @ + 1]
    ELSE [f EXCEPT !.phase = next_phase, !.attempt = 0]

\* the response of get_random_word_pair returning (start_word, target_word)
\* from the given phase
pair_returned(phase, start_word, target_word) ==
    [op |-> "get_random_word_pair", phase |-> phase, raised |-> None,
     result |-> Some(<<start_word, target_word>>)]

\* the response of get_random_word_pair when an exception leaves it
pair_raised(phase, exception) ==
    [op |-> "get_random_word_pair", phase |-> phase, raised |-> Some(exception),
     result |-> None]

\* the final return statement giving the first word twice
final_pair_first_twice(all_words) == <<all_words[1], all_words[1]>>

\* the pair of the final return statement, for a catalog that is not empty
final_pair(all_words) ==
    <<all_words[1], IF Len(all_words) > 1 THEN all_words[2] ELSE all_words[1]>>

\* the graph with start and target in it, as the second and third loops
\* ensure before they search
ensure_in_graph(es, sg, start_word, target_word) ==
    LET sg1 == IF ~word_exists(sg, start_word)
               THEN add_word(es, sg, start_word) ELSE sg
    IN IF ~word_exists(sg1, target_word)
       THEN add_word(es, sg1, target_word) ELSE sg1

----------------------------------------------------------------------------
(* The game service asked for word pairs *)

\* cat - animal - bird - tree - plant - flower - car - vehicle - house in a
\* chain; dog next to animal, bird, tree and plant
PairModel ==
    (<<"c", "a", "t">> :> TwoHot(1, 2)) @@
    (<<"a", "n", "i", "m", "a", "l">> :> TwoHot(2, 3)) @@
    (<<"b", "i", "r", "d">> :> TwoHot(3, 4)) @@
    (<<"t", "r", "e", "e">> :> TwoHot(4, 5)) @@
    (<<"p", "l", "a", "n", "t">> :> TwoHot(5, 6)) @@
    (<<"f", "l", "o", "w", "e", "r">> :> TwoHot(6, 7)) @@
    (<<"c", "a", "r">> :> TwoHot(7, 8)) @@
    (<<"v", "e", "h", "i", "c", "l", "e">> :> TwoHot(8, 9)) @@
    (<<"h", "o", "u", "s", "e">> :> TwoHot(9, 10)) @@
    (<<"d", "o", "g">> :> TwoHot(3, 5))

\* cat - animal - bird - tree with dog next to animal, bird and tree
SmallCatalog ==
    { <<"c", "a", "t">>, <<"a", "n", "i", "m", "a", "l">>, <<"b", "i", "r", "d">>,
      <<"t", "r", "e", "e">>, <<"d", "o", "g">> }

\* the catalogs a word file can hold: no word, one word, some words of the
\* model, the words of the model
PairCatalogs == { {}, { <<"c", "a", "t">> }, SmallCatalog, DOMAIN PairModel }

PairInit ==
    /\ embedding_service = [model |-> PairModel]
    /\ word_database \in { [words |-> c] : c \in PairCatalogs }
    /\ \E words \in words_to_load(word_database, PreloadWords) :
            semantic_graph = add_words(embedding_service,
                                       NewSemanticGraph(DefaultThreshold), words)
    /\ ret = Idle
    /\ frame = None
    /\ routes = ServiceReady

\* the call and the statements before the first loop
GetRandomWordPair ==
    /\ ret = Idle
    /\ frame = None
    /\ frame' = Some(new_frame(word_database, semantic_graph))
    /\ UNCHANGED <<embedding_service, word_database, semantic_graph, ret, routes>>

\* one iteration of the loop over the words in the graph
GraphAttempt ==
    /\ frame # None
    /\ frame[1].phase = "graph"
    /\ LET f == frame[1]
       IN IF f.words_in_graph = {}
          THEN \* random.choice of an empty sequence
               /\ ret' = pair_raised("graph", "IndexError")
               /\ frame' = None
               /\ UNCHANGED semantic_graph
          ELSE \E start_word \in f.words_in_graph, target_word \in f.words_in_graph :
                 IF start_word = target_word
                 THEN /\ frame' = Some(next_iteration(f, max_attempts, "catalog"))
                      /\ UNCHANGED <<semantic_graph, ret>>
                 ELSE \E path \in bfs_path_results(embedding_service, semantic_graph,
                                        start_word, target_word, PairMaxSteps) :
                        /\ semantic_graph' = bfs_path(embedding_service, semantic_graph,
                                                      start_word, target_word)
                        /\ IF accepted(path)
                           THEN /\ ret' = pair_returned("graph", start_word, target_word)
                                /\ frame' = None
                           ELSE /\ frame' = Some(next_iteration(f, max_attempts, "catalog"))
                                /\ UNCHANGED ret
    /\ UNCHANGED <<embedding_service, word_database, routes>>

\* one iteration of the loop over the whole catalog
CatalogAttempt ==
    /\ frame # None
    /\ frame[1].phase = "catalog"
    /\ LET f == frame[1]
           all_words == { f.all_words[i] : i \in 1..Len(f.all_words) }
       IN IF all_words = {}
          THEN /\ ret' = pair_raised("catalog", "IndexError")
               /\ frame' = None
               /\ UNCHANGED semantic_graph
          ELSE \E start_word \in all_words, target_word \in all_words :
                 IF start_word = target_word
                 THEN /\ frame' = Some(next_iteration(f, fallback_attempts, "common"))
                      /\ UNCHANGED <<semantic_graph, ret>>
                 ELSE LET sg1 == ensure_in_graph(embedding_service, semantic_graph,
                                                 start_word, target_word)
                      IN \E path \in bfs_path_results(embedding_service, sg1,
                                        start_word, target_word, PairMaxSteps) :
                        /\ semantic_graph' = bfs_path(embedding_service, sg1,
                                                      start_word, target_word)
                        /\ IF accepted(path)
                           THEN /\ ret' = pair_returned("catalog", start_word, target_word)
                                /\ frame' = None
                           ELSE /\ frame' = Some(next_iteration(f, fallback_attempts,
                                                                "common"))
                                /\ UNCHANGED ret
    /\ UNCHANGED <<embedding_service, word_database, routes>>

\* one iteration of the loop over common_pairs
CommonPairAttempt ==
    /\ frame # None
    /\ frame[1].phase = "common"
    /\ LET f == frame[1]
           start == common_pairs[f.attempt + 1][1]
           target == common_pairs[f.attempt + 1][2]
       IN IF validate_word(word_database, start) /\ validate_word(word_database, target)
          THEN LET sg1 == ensure_in_graph(embedding_service, semantic_graph,
                                          start, target)
               IN \E path \in bfs_path_results(embedding_service, sg1, start, target,
                                               PairMaxSteps) :
                    /\ semantic_graph' = bfs_path(embedding_service, sg1, start, target)
                    /\ IF accepted(path)
                       THEN /\ ret' = pair_returned("common", start, target)
                            /\ frame' = None
                       ELSE /\ frame' = Some(next_iteration(f, Len(common_pairs),
                                                            "final"))
                            /\ UNCHANGED ret
          ELSE /\ frame' = Some(next_iteration(f, Len(common_pairs), "final"))
               /\ UNCHANGED <<semantic_graph, ret>>
    /\ UNCHANGED <<embedding_service, word_database, routes>>

\* the final return statement
FinalFallback ==
    /\ frame # None
    /\ frame[1].phase = "final"
    /\ LET all_words == frame[1].all_words
       IN ret' = IF Len(all_words) = 0
                 THEN pair_raised("final", "IndexError")
                 ELSE pair_returned("final", final_pair(all_words)[1],
                                    final_pair(all_words)[2])
    /\ frame' = None
    /\ UNCHANGED <<embedding_service, word_database, semantic_graph, routes>>

PairNext ==
    \/ Return
    \/ GetRandomWordPair
    \/ GraphAttempt
    \/ CatalogAttempt
    \/ CommonPairAttempt
    \/ FinalFallback

PairSpec == PairInit /\ [][PairNext]_vars

\* the next statement of the running call
RunCall == GraphAttempt \/ CatalogAttempt \/ CommonPairAttempt \/ FinalFallback

\* the service built on one of the smaller catalogs
PairLiveInit ==
    /\ PairInit
    /\ word_database.words \subseteq SmallCatalog

\* the interpreter keeps running the call
PairLiveSpec == PairLiveInit /\ [][PairNext]_vars /\ WF_vars(RunCall)

----------------------------------------------------------------------------
(* The game service asked for hints *)

\* the largest hintLevel asked for
MaxHintLevel == 4

\* the hintLevel parameters: below zero, zero, and up to MaxHintLevel
HintLevels == (-1)..MaxHintLevel

\* the requests: startWord, targetWord, currentPath
HintRequests ==
    { << <<"c", "a", "t">>, <<"t", "r", "e", "e">>, << >> >>,
      << <<"c", "a", "t">>, <<"c", "a", "t">>, << >> >>,
      << <<"c", "a", "t">>, <<"t", "r", "e", "e">>, <<"a", "n", "i", "m", "a", "l", ",", "b", "i", "r", "d">> >>,
      << <<"c", "a", "t">>, <<"b", "i", "r", "d">>, <<"a", "n", "i", "m", "a", "l", ",", " ", "B", "i", "r", "d", " ">> >>,
      << <<"c", "a", "t">>, <<"a", "n", "i", "m", "a", "l">>, <<"a", "n", "i", "m", "a", "l", ",", "b", "i", "r", "d">> >>,
      << <<"c", "a", "t">>, <<"z", "e", "b", "r", "a">>, << >> >>,
      << <<" ", "a", "n", "i", "m", "a", "l">>, <<"b", "i", "r", "d">>, <<"c", "a", "t">> >>,
      << <<"a", "n", "i", "m", "a", "l">>, <<"b", "i", "r", "d">>, <<"c", "a", "t">> >>,
      << << >>, <<"t", "r", "e", "e">>, << >> >>,
      << <<"a", "n", "i", "m", "a", "l">>, <<"a", "n", "i", "m", "a", "l">>, <<"c", "a", "t">> >>,
      << <<"C", "a", "t">>, <<"p", "l", "a", "n", "t">>, <<",", "a", "n", "i", "m", "a", "l", ",", ",", "d", "o", "g">> >>,
      << <<"d", "o", "g">>, <<"h", "o", "u", "s", "e">>, << >> >> }

HintInit ==
    /\ embedding_service = [model |-> PairModel]
    /\ word_database = [words |-> DOMAIN PairModel]
    /\ \E words \in words_to_load(word_database, PreloadWords) :
            semantic_graph = add_words(embedding_service,
                                       NewSemanticGraph(DefaultThreshold), words)
    /\ ret = Idle
    /\ frame = None
    /\ routes = ServiceReady

GetHint ==
    /\ ret = Idle
    /\ \E request \in HintRequests, hint_level \in HintLevels :
        \E r \in get_hint(embedding_service, word_database, semantic_graph,
                          request[1], request[2], request[3], hint_level) :
            /\ semantic_graph' = r.sg
            /\ ret' = [op |-> "get_hint", start_word |-> request[1],
                       target_word |-> request[2], current_path |-> request[3],
                       hint_level |-> hint_level, status |-> r.status,
                       word |-> r.word, masked_word |-> r.masked_word,
                       word_length |-> r.word_length,
                       fully_revealed |-> r.fully_revealed, message |-> r.message,
                       steps_remaining |-> r.steps_remaining]
            /\ UNCHANGED <<embedding_service, word_database, frame, routes>>

HintNext == Return \/ GetHint

HintSpec == HintInit /\ [][HintNext]_vars

----------------------------------------------------------------------------
(* The three systems above side by side: the embedding model loaded at the *)
(* start tells which one a behaviour is                                    *)

ServiceInit == Init \/ GameInit \/ PairInit

ServiceNext ==
    \/ embedding_service.model \in Models /\ Next
    \/ embedding_service.model = GameModel /\ GameNext
    \/ embedding_service.model = PairModel /\ PairNext

ServiceSpec == ServiceInit /\ [][ServiceNext]_vars

----------------------------------------------------------------------------
(* Types *)

TypeOK ==
    /\ semantic_graph.similarity_threshold = DefaultThreshold
    /\ DOMAIN semantic_graph.word_embeddings \subseteq DOMAIN embedding_service.model
    /\ DOMAIN semantic_graph.graph \subseteq DOMAIN semantic_graph.word_embeddings

----------------------------------------------------------------------------
(* The game service asked for paths, similarities and word pairs, one call *)
(* after the other                                                         *)

\* the words get_word_similarity is asked about: a catalog word and a word
\* the catalog does not hold
SimilarityWords == { <<"a">>, <<"x">> }

\* GameService.get_word_similarity
GetWordSimilarity ==
    /\ ret = Idle
    /\ \E word1 \in SimilarityWords, word2 \in SimilarityWords :
        /\ CacheRoom(semantic_graph, word1, word2)
        /\ semantic_graph' = get_similarity(embedding_service, semantic_graph, word1, word2)
        /\ ret' = [op |-> "get_word_similarity", word1 |-> word1, word2 |-> word2,
                   result |-> get_similarity_result(embedding_service, semantic_graph,
                                                    word1, word2)]
        /\ UNCHANGED <<embedding_service, word_database, frame, routes>>

\* validate_path and calculate_score are left to GameSpec: they reject a word
\* the catalog does not hold before they touch the graph
CatalogNext ==
    \/ frame = None /\ FindOptimalPath
    \/ frame = None /\ GetWordSimilarity
    \/ PairNext

CatalogSpec == GameInit /\ [][CatalogNext]_vars

----------------------------------------------------------------------------
(* get_game_service, one statement at a time, called by the request threads *)
(* of the server.  Only which GameService object each statement handles is   *)
(* followed; the graph inside each object is not.                            *)

SingletonInit ==
    /\ embedding_service = [model |-> GameModel]
    /\ word_database = [words |-> Catalog]
    /\ semantic_graph = NewSemanticGraph(DefaultThreshold)
    /\ ret = Idle
    /\ frame = None
    /\ routes = NoService

\* a request handler calls get_game_service()
CallGetGameService ==
    \E t \in Threads :
        /\ routes.pc[t] = "idle"
        /\ routes' = [routes EXCEPT !.pc[t] = "test"]
        /\ UNCHANGED <<embedding_service, word_database, semantic_graph, ret, frame>>

\* if _game_service is None:
TestGameService ==
    \E t \in Threads :
        /\ routes.pc[t] = "test"
        /\ routes' = [routes EXCEPT !.pc[t] = IF routes._game_service = None
                                              THEN "construct" ELSE "return"]
        /\ UNCHANGED <<embedding_service, word_database, semantic_graph, ret, frame>>

\* GameService(): a new object, held by the thread until it is assigned
ConstructGameService ==
    \E t \in Threads :
        /\ routes.pc[t] = "construct"
        /\ routes' = [routes EXCEPT !.constructed = @ + 1,
                                    !.local[t] = Some(routes.constructed + 1),
                                    !.pc[t] = "assign"]
        /\ UNCHANGED <<embedding_service, word_database, semantic_graph, ret, frame>>

\* _game_service = (the new object)
AssignGameService ==
    \E t \in Threads :
        /\ routes.pc[t] = "assign"
        /\ routes' = [routes EXCEPT !._game_service = routes.local[t],
                                    !.pc[t] = "return"]
        /\ UNCHANGED <<embedding_service, word_database, semantic_graph, ret, frame>>

\* return _game_service
ReturnGameService ==
    \E t \in Threads :
        /\ routes.pc[t] = "return"
        /\ routes' = [routes EXCEPT !.returned[t] = routes._game_service,
                                    !.pc[t] = "done"]
        /\ UNCHANGED <<embedding_service, word_database, semantic_graph, ret, frame>>

SingletonNext ==
    \/ CallGetGameService
    \/ TestGameService
    \/ ConstructGameService
    \/ AssignGameService
    \/ ReturnGameService

SingletonSpec == SingletonInit /\ [][SingletonNext]_vars

----------------------------------------------------------------------------
(* Shortest distances, computed level by level from the adjacency alone *)

RECURSIVE ReachWithin(_, _, _)
ReachWithin(graph, S, k) ==
    IF k = 0 THEN S
    ELSE LET R == ReachWithin(graph, S, k - 1)
         IN R \cup UNION { GraphGet(graph, w) : w \in R }

Reachable(graph, s, t) == t \in ReachWithin(graph, {s}, Cardinality(DOMAIN graph))

\* the length of a shortest path from s to t, for t reachable from s
Distance(graph, s, t) ==
    CHOOSE k \in 0..Cardinality(DOMAIN graph) :
        /\ t \in ReachWithin(graph, {s}, k)
        /\ \A j \in 0..(k - 1) : t \notin ReachWithin(graph, {s}, j)

Steps(path) == Len(path) - 1

Known == DOMAIN semantic_graph.word_embeddings

----------------------------------------------------------------------------
(* Claims about bfs_path *)

\* C1: any path bfs_path(start, target, max_steps) returns has at most
\* max_steps steps.
C1_PathWithinMaxSteps ==
    (ret.op = "bfs_path" /\ ret.result # None)
        => Steps(ret.result[1]) <= ret.max_steps

\* C2: bfs_path returns None whenever the target is farther than max_steps
\* from the start in the adjacency, or not reachable at all.
C2_NoneWhenOutOfReach ==
    ret.op = "bfs_path" =>
        LET start == Normalize(ret.start_word)
            target == Normalize(ret.target_word)
        IN (\/ ~Reachable(semantic_graph.graph, start, target)
            \/ Distance(semantic_graph.graph, start, target) > ret.max_steps)
                => ret.result = None

----------------------------------------------------------------------------
(* Claims about the edges *)

\* C4: for two distinct known words a and b, b is a neighbour of a, and a of
\* b, exactly when their similarity is at or above the threshold, which is
\* exactly when are_connected(a, b).
C4_EdgeIffSimilar ==
    \A a \in Known, b \in Known :
        a # b =>
            LET edge == b \in GraphGet(semantic_graph.graph, a)
            IN /\ edge <=> a \in GraphGet(semantic_graph.graph, b)
               /\ edge <=> cosine_similarity(semantic_graph.word_embeddings[a],
                                             semantic_graph.word_embeddings[b])
                               >= semantic_graph.similarity_threshold
               /\ edge <=> are_connected_result(embedding_service, semantic_graph, a, b)

\* three known words, two of them neighbours and two of them not, with a
\* similarity in the cache
C4_Witness ==
    /\ \E a \in Known, b \in Known :
            a # b /\ b \in GraphGet(semantic_graph.graph, a)
    /\ \E a \in Known, b \in Known :
            a # b /\ b \notin GraphGet(semantic_graph.graph, a)
    /\ DOMAIN semantic_graph.similarity_cache # {}

\* add_word called once per element of the list, in the order of the list
RECURSIVE AddEach(_, _, _)
AddEach(es, sg, words) ==
    IF words = <<>> THEN sg
    ELSE AddEach(es, add_word(es, sg, Head(words)), Tail(words))

SameGraph(sg1, sg2) ==
    /\ DOMAIN sg1.word_embeddings = DOMAIN sg2.word_embeddings
    /\ \A w \in DOMAIN sg1.word_embeddings :
            GraphGet(sg1.graph, w) = GraphGet(sg2.graph, w)

\* C5: from the same graph, add_words(batch) and add_word once per element
\* of batch, in any order, end with the same known words and the same
\* neighbour set for every word.
C5_BatchEqualsSequential ==
    [][ret'.op = "add_words" =>
        \A f \in Permutations(1..Len(ret'.words)) :
            SameGraph(semantic_graph',
                      AddEach(embedding_service, semantic_graph,
                              [i \in 1..Len(ret'.words) |-> ret'.words[f[i]]]))]_vars

----------------------------------------------------------------------------
(* Claims about validate_path and calculate_score *)

StepsOk(path) == MinPathSteps <= Steps(path) /\ Steps(path) <= MaxPathSteps

NoCaseDuplicate(path) ==
    \A i \in 1..Len(path), j \in 1..Len(path) :
        i < j => lower(path[i]) # lower(path[j])

InCatalog(word) == Normalize(word) \in word_database.words

AllInCatalog(path) == \A i \in 1..Len(path) : InCatalog(path[i])

\* the similarity of two words as the model gives it, whatever the cache holds
ModelSimilarity(word1, word2) ==
    np_dot(embedding_service.model[Normalize(word1)],
           embedding_service.model[Normalize(word2)])

Similar(word1, word2) ==
    ModelSimilarity(word1, word2) >= semantic_graph.similarity_threshold

AllSimilar(path) == \A i \in 1..(Len(path) - 1) : Similar(path[i], path[i + 1])

\* the path meets every rule of validate_path
PathPasses(path) ==
    StepsOk(path) /\ NoCaseDuplicate(path) /\ AllInCatalog(path) /\ AllSimilar(path)

\* the message of the first rule the path breaks, in the order length,
\* duplicates, catalog, connectivity
FirstFailure(path) ==
    IF Len(path) < 1 THEN [kind |-> "empty"]
    ELSE IF Steps(path) < MinPathSteps THEN [kind |-> "too_short"]
    ELSE IF Steps(path) > MaxPathSteps THEN [kind |-> "too_long"]
    ELSE IF ~NoCaseDuplicate(path) THEN [kind |-> "duplicate"]
    ELSE IF ~AllInCatalog(path)
    THEN [kind |-> "not_in_database",
          word |-> path[CHOOSE i \in 1..Len(path) :
                            /\ ~InCatalog(path[i])
                            /\ \A j \in 1..(i - 1) : InCatalog(path[j])]]
    ELSE LET i == CHOOSE n \in 1..(Len(path) - 1) :
                    /\ ~Similar(path[n], path[n + 1])
                    /\ \A j \in 1..(n - 1) : Similar(path[j], path[j + 1])
         IN [kind |-> "not_connected",
             word1 |-> Normalize(path[i]), word2 |-> Normalize(path[i + 1]),
             similarity |-> ModelSimilarity(path[i], path[i + 1])]

\* C6: validate_path(path) returns ok exactly when the path has 2 to 6 steps,
\* no two entries equal ignoring letter case, only catalog words, and every
\* consecutive pair at or above the threshold; otherwise it returns the
\* message of the first failing check in the order length, duplicates,
\* catalog, connectivity.
C6_ValidatePath ==
    ret.op = "validate_path" =>
        /\ ret.ok <=> PathPasses(ret.path)
        /\ ret.ok => ret.message = None
        /\ ~ret.ok => ret.message = Some(FirstFailure(ret.path))

\* a path that repeats a word in another letter case and holds a word that
\* is not in the catalog is rejected for the repetition
C6_Witness ==
    /\ ret.op = "validate_path"
    /\ StepsOk(ret.path)
    /\ ~NoCaseDuplicate(ret.path)
    /\ ~AllInCatalog(ret.path)
    /\ ~ret.ok

\* C7: validate_path rejects every path in which two entries are the same
\* word once lowercased and trimmed.
C7_RejectsRepeatedWord ==
    (/\ ret.op = "validate_path"
     /\ \E i \in 1..Len(ret.path), j \in 1..Len(ret.path) :
            i < j /\ Normalize(ret.path[i]) = Normalize(ret.path[j]))
        => ~ret.ok

EndpointsMatch(path, start_word, target_word) ==
    /\ Normalize(path[1]) = Normalize(start_word)
    /\ Normalize(path[Len(path)]) = Normalize(target_word)

TableScore(diff) ==
    CASE diff < 0 -> 120
      [] diff = 0 -> 100
      [] diff = 1 -> 90
      [] diff = 2 -> 80
      [] diff = 3 -> 60
      [] diff > 3 -> 50

\* C8: for a player path that passes validate_path and matches start and
\* target, with a reference path found, the score is fixed by diff = player
\* steps - reference steps: 120 below 0, 100 at 0, 90 at 1, 80 at 2, 60 at 3,
\* 50 above 3.
C8_ScoreTable ==
    (/\ ret.op = "calculate_score"
     /\ PathPasses(ret.player_path)
     /\ EndpointsMatch(ret.player_path, ret.start_word, ret.target_word)
     /\ ret.algorithm_path # None)
        => ret.score = TableScore(Steps(ret.player_path) - Steps(ret.algorithm_path[1]))

\* a scored path more than three steps longer than the reference path
C8_Witness ==
    /\ ret.op = "calculate_score"
    /\ PathPasses(ret.player_path)
    /\ EndpointsMatch(ret.player_path, ret.start_word, ret.target_word)
    /\ ret.algorithm_path # None
    /\ Steps(ret.player_path) - Steps(ret.algorithm_path[1]) > 3
    /\ ret.score = 50

\* the message validate_path gives the path inside calculate_score
ValidationMessage(sg, player_path, start_word, target_word) ==
    validate_path(embedding_service, word_database,
                  find_optimal_path(embedding_service, word_database, sg,
                                    start_word, target_word),
                  player_path).message

\* C9: whenever the player path fails validate_path, calculate_score returns
\* score 0, the validation message, and a populated reference path equal to
\* bfs_path(start, target, 6), computed before the validation.
C9_ReferenceAlwaysPopulated ==
    [][(ret'.op = "calculate_score" /\ ~PathPasses(ret'.player_path)) =>
        /\ ret'.score = 0
        /\ Some(ret'.message) = ValidationMessage(semantic_graph, ret'.player_path,
                                                  ret'.start_word, ret'.target_word)
        /\ ret'.algorithm_path # None
        /\ ret'.algorithm_path \in
                bfs_path_results(embedding_service, semantic_graph,
                                 ret'.start_word, ret'.target_word, MaxPathSteps)]_vars

\* C9 as amended: whenever the player path fails validate_path,
\* calculate_score returns score 0, the validation message, and the reference
\* computed before the validation: a value of bfs_path(start, target, 6),
\* which is None when no path is found, if start and target are catalog
\* words, and None if either is not.
C9_ReferenceBeforeValidation ==
    [][(ret'.op = "calculate_score" /\ ~PathPasses(ret'.player_path)) =>
        /\ ret'.score = 0
        /\ Some(ret'.message) = ValidationMessage(semantic_graph, ret'.player_path,
                                                  ret'.start_word, ret'.target_word)
        /\ IF InCatalog(ret'.start_word) /\ InCatalog(ret'.target_word)
           THEN ret'.algorithm_path \in
                    bfs_path_results(embedding_service, semantic_graph,
                                     ret'.start_word, ret'.target_word, MaxPathSteps)
           ELSE ret'.algorithm_path = None]_vars

\* a rejected player path scored 0 with a reference path
C9_Witness ==
    /\ ret.op = "calculate_score"
    /\ ~PathPasses(ret.player_path)
    /\ ret.score = 0
    /\ ret.algorithm_path # None

\* C10: a player path that passes validate_path but whose first word is not
\* start, or whose last word is not target, after lowercasing and trimming,
\* scores 0 with the reference path; endpoints that differ from start and
\* target only by case or surrounding whitespace are not rejected for it.
C10_EndpointsMustMatch ==
    [][(ret'.op = "calculate_score" /\ PathPasses(ret'.player_path)) =>
        IF EndpointsMatch(ret'.player_path, ret'.start_word, ret'.target_word)
        THEN ret'.message.kind \notin {"must_start", "must_end"}
        ELSE /\ ret'.score = 0
             /\ ret'.message.kind \in {"must_start", "must_end"}
             /\ ret'.algorithm_path \in
                    find_optimal_path_results(embedding_service, word_database,
                        semantic_graph, ret'.start_word, ret'.target_word,
                        MaxPathSteps)]_vars

\* a path that passes validate_path scored against a start or a target that
\* is another word
C10_Witness ==
    /\ ret.op = "calculate_score"
    /\ PathPasses(ret.player_path)
    /\ ~EndpointsMatch(ret.player_path, ret.start_word, ret.target_word)
    /\ ret.score = 0

\* a path accepted although its endpoints are written differently from start
\* and target
C10_WitnessWritten ==
    /\ ret.op = "calculate_score"
    /\ PathPasses(ret.player_path)
    /\ ret.player_path[1] # ret.start_word
    /\ ret.player_path[Len(ret.player_path)] # ret.target_word
    /\ ret.score > 0

----------------------------------------------------------------------------
(* Claims about find_optimal_path *)

\* C11: if start or target is not in the word catalog, find_optimal_path
\* returns None and leaves the graph (known words, adjacency, similarity
\* cache) exactly as it was before the call.
C11_UnknownWordLeavesGraph ==
    [][(/\ ret'.op = "find_optimal_path"
        /\ ~InCatalog(ret'.start_word) \/ ~InCatalog(ret'.target_word)) =>
            /\ ret'.result = None
            /\ semantic_graph' = semantic_graph]_vars

\* find_optimal_path from a word outside the catalog that the embedding
\* provider knows: None is returned and the word is not in the graph
C11_Witness ==
    /\ ret.op = "find_optimal_path"
    /\ ~InCatalog(ret.start_word)
    /\ Normalize(ret.start_word) \in DOMAIN embedding_service.model
    /\ ret.result = None
    /\ Normalize(ret.start_word) \notin Known

----------------------------------------------------------------------------
(* Claims about add_word and get_similarity *)

\* C15: add_word(w) for a word whose lowercased, trimmed form is already
\* known returns the stored embedding without calling the embedding
\* provider, and leaves the known words, every neighbour set and the
\* similarity cache unchanged.
C15_AddKnownWordIsNoOp ==
    [][(ret'.op = "add_word" /\ Normalize(ret'.word) \in Known) =>
        /\ ret'.result = semantic_graph.word_embeddings[Normalize(ret'.word)]
        /\ ret'.encoded = << >>
        /\ semantic_graph' = semantic_graph]_vars

\* add_word of a word written in another way than the known word it
\* normalises to, which has a neighbour
C15_Witness ==
    /\ ret.op = "add_word"
    /\ ret.encoded = << >>
    /\ ret.word # Normalize(ret.word)
    /\ GraphGet(semantic_graph.graph, Normalize(ret.word)) # {}

\* C16: for all words a and b and every graph state, get_similarity(a, b)
\* and get_similarity(b, a) return the same value, whichever is called
\* first, whether or not the pair is cached and whether or not either word
\* was known before; the cache holds one entry per unordered pair.  Every
\* graph state is the state between two calls that a Return leaves.
C16_SimilaritySymmetric ==
    ret = Idle =>
    /\ \A a \in RawWords, b \in RawWords :
        LET first == get_similarity(embedding_service, semantic_graph, a, b)
            second == get_similarity(embedding_service, first, b, a)
        IN /\ get_similarity_result(embedding_service, semantic_graph, a, b)
                = get_similarity_result(embedding_service, semantic_graph, b, a)
           /\ get_similarity_result(embedding_service, first, b, a)
                = get_similarity_result(embedding_service, semantic_graph, a, b)
           /\ second.similarity_cache = first.similarity_cache
    /\ \A k \in DOMAIN semantic_graph.similarity_cache :
            k[1] # k[2] => <<k[2], k[1]>> \notin DOMAIN semantic_graph.similarity_cache

\* get_similarity called with the later word first: the pair is cached under
\* the sorted key
C16_Witness ==
    /\ ret.op = "get_similarity"
    /\ StrLess(Normalize(ret.word2), Normalize(ret.word1))
    /\ <<Normalize(ret.word2), Normalize(ret.word1)>>
            \in DOMAIN semantic_graph.similarity_cache

\* C17: the graph only grows: across every operation (add_word, add_words,
\* get_similarity, are_connected, get_neighbors, bfs_path, validate_path,
\* calculate_score, get_random_word_pair) no known word is removed, no edge
\* is removed, and the embedding stored for a known word never changes.
C17_GraphOnlyGrows ==
    [][/\ Known \subseteq DOMAIN semantic_graph'.word_embeddings
       /\ \A w \in Known :
            semantic_graph'.word_embeddings[w] = semantic_graph.word_embeddings[w]
       /\ \A w \in DOMAIN semantic_graph.graph :
            semantic_graph.graph[w] \subseteq GraphGet(semantic_graph'.graph, w)]_vars

\* a graph that was empty at the start and holds every word of the model, a
\* path of two steps and a cached similarity
C17_Witness ==
    /\ embedding_service.model \in Models
    /\ ret.op = "bfs_path"
    /\ ret.result # None
    /\ Known = Words
    /\ \E s \in Known, t \in Known :
            /\ Reachable(semantic_graph.graph, s, t)
            /\ Distance(semantic_graph.graph, s, t) = 2
    /\ DOMAIN semantic_graph.similarity_cache # {}

\* C20: adding a new word w with add_word changes adjacency only by
\* inserting edges incident to w: for all previously known words a and b,
\* whether b is a neighbour of a is the same before and after the call, and
\* no previously stored embedding or cached similarity changes.
C20_AddWordTouchesOnlyNewWord ==
    [][(ret'.op = "add_word" /\ Normalize(ret'.word) \notin Known) =>
        LET w == Normalize(ret'.word)
        IN /\ \A a \in Known, b \in Known :
                (b \in GraphGet(semantic_graph'.graph, a))
                    <=> (b \in GraphGet(semantic_graph.graph, a))
           /\ \A a \in DOMAIN semantic_graph'.graph :
                \A b \in semantic_graph'.graph[a] \ GraphGet(semantic_graph.graph, a) :
                    a = w \/ b = w
           /\ \A a \in DOMAIN semantic_graph.graph :
                semantic_graph.graph[a] \subseteq semantic_graph'.graph[a]
           /\ DOMAIN semantic_graph'.word_embeddings = Known \cup {w}
           /\ \A a \in Known :
                semantic_graph'.word_embeddings[a] = semantic_graph.word_embeddings[a]
           /\ semantic_graph'.similarity_cache = semantic_graph.similarity_cache]_vars

\* add_word of a new word that is similar to two known words which are not
\* neighbours of each other, with a similarity in the cache
C20_Witness ==
    /\ ret.op = "add_word"
    /\ ret.encoded # << >>
    /\ DOMAIN semantic_graph.similarity_cache # {}
    /\ LET w == ret.encoded[1]
       IN \E a \in Known \ {w}, b \in Known \ {w} :
            /\ a # b
            /\ {a, b} \subseteq GraphGet(semantic_graph.graph, w)
            /\ b \notin GraphGet(semantic_graph.graph, a)

----------------------------------------------------------------------------
(* Further claims about the graph operations *)

\* C23: every path bfs_path returns starts at the normalised start word, ends
\* at the normalised target word, holds no word twice, and every two
\* consecutive words of it are neighbours in the graph as it is when bfs_path
\* returns.
C23_PathWellFormed ==
    (ret.op = "bfs_path" /\ ret.result # None) =>
        LET path == ret.result[1]
        IN /\ Len(path) >= 1
           /\ path[1] = Normalize(ret.start_word)
           /\ path[Len(path)] = Normalize(ret.target_word)
           /\ \A i \in 1..Len(path), j \in 1..Len(path) : i # j => path[i] # path[j]
           /\ \A i \in 1..(Len(path) - 1) :
                  path[i + 1] \in GraphGet(semantic_graph.graph, path[i])

\* bfs_path called with a start word in upper case and with a space returned
\* a path of three words
C23_Witness ==
    /\ ret.op = "bfs_path"
    /\ ret.start_word # Normalize(ret.start_word)
    /\ ret.result # None
    /\ Len(ret.result[1]) = 3

\* C25: after any sequence of add_word and add_words calls, with lists that
\* may hold the same word twice or in different case, no word is in its own
\* neighbour set.
C25_NoSelfNeighbour ==
    \A w \in DOMAIN semantic_graph.graph : w \notin semantic_graph.graph[w]

\* C28: the map add_words returns has exactly the normalised words of the
\* list as its keys, and maps each of them to the embedding the graph stores
\* for it, whether the word was known before the call or added by it.
C28_AddWordsReturnsEveryWord ==
    ret.op = "add_words" =>
        /\ DOMAIN ret.result = { Normalize(ret.words[i]) : i \in 1..Len(ret.words) }
        /\ \A w \in DOMAIN ret.result :
              /\ w \in DOMAIN semantic_graph.word_embeddings
              /\ ret.result[w] = semantic_graph.word_embeddings[w]

\* the call ended with the exception of the embedding provider
Raised(r) == r.op \in {"add_word", "add_words"} /\ "raised" \in DOMAIN r

\* C21: when the embedding provider fails during add_word or add_words, the
\* failure leaves the call after a single call to the provider, no word,
\* embedding, edge or cache entry is added, the graph is exactly as it was
\* before the call, and every two distinct known words are still neighbours
\* exactly when their similarity is at or above the threshold.
C21_FailureLeavesGraph ==
    [][Raised(ret') =>
        /\ Len(ret'.encoded) = 1
        /\ semantic_graph' = semantic_graph
        /\ DOMAIN semantic_graph'.word_embeddings = DOMAIN semantic_graph.word_embeddings
        /\ semantic_graph'.graph = semantic_graph.graph
        /\ semantic_graph'.similarity_cache = semantic_graph.similarity_cache
        /\ C4_EdgeIffSimilar']_vars

\* the provider raised in an add_words of two words, one of them known, on
\* a graph with an edge and a cached similarity
C21_Witness ==
    /\ Raised(ret)
    /\ ret.op = "add_words"
    /\ Len(ret.words) = 2
    /\ \E i \in 1..2 : Normalize(ret.words[i]) \in Known
    /\ \E i \in 1..2 : Normalize(ret.words[i]) \notin Known
    /\ \E a \in Known : GraphGet(semantic_graph.graph, a) # {}
    /\ DOMAIN semantic_graph.similarity_cache # {}

----------------------------------------------------------------------------
(* Claims about get_random_word_pair *)

\* get_random_word_pair has returned a pair
PairReturned == ret.op = "get_random_word_pair" /\ ret.result # None

\* C12: get_random_word_pair always returns two distinct words, in every
\* phase including the last-resort fallback, for every non-empty catalog and
\* every graph state.
C12_DistinctWords ==
    (PairReturned /\ word_database.words # {})
        => ret.result[1][1] # ret.result[1][2]

\* C12 as amended: for every catalog of at least two words and every graph
\* state, get_random_word_pair returns two distinct words in every phase,
\* the last-resort fallback included; for a catalog of one word the
\* last-resort fallback returns that word twice.
C12_DistinctWordsOfTwo ==
    PairReturned =>
        IF Cardinality(word_database.words) >= 2
        THEN ret.result[1][1] # ret.result[1][2]
        ELSE /\ ret.phase = "final"
             /\ word_database.words = { ret.result[1][1] }
             /\ ret.result[1][1] = ret.result[1][2]

\* the last-resort fallback returning two distinct words of a catalog of
\* more than one word
C12_Witness ==
    /\ PairReturned
    /\ ret.phase = "final"
    /\ Cardinality(word_database.words) >= 2
    /\ ret.result[1][1] # ret.result[1][2]

\* C13: whenever get_random_word_pair returns from a phase other than the
\* final fallback, the shortest path between the two returned words in the
\* graph at return time has between 2 and 6 steps inclusive.
C13_ReturnedPairWithinReach ==
    (PairReturned /\ ret.phase # "final") =>
        /\ Reachable(semantic_graph.graph, ret.result[1][1], ret.result[1][2])
        /\ Distance(semantic_graph.graph, ret.result[1][1], ret.result[1][2])
                \in AcceptMinSteps..AcceptMaxSteps

\* a pair six steps apart returned from the loop over the catalog, in a graph
\* that holds words seven steps apart
C13_Witness ==
    /\ PairReturned
    /\ ret.phase = "catalog"
    /\ Distance(semantic_graph.graph, ret.result[1][1], ret.result[1][2])
            = AcceptMaxSteps
    /\ \E s \in Known, t \in Known :
            /\ Reachable(semantic_graph.graph, s, t)
            /\ Distance(semantic_graph.graph, s, t) > AcceptMaxSteps

\* the running loop is within its range
AttemptsBounded ==
    frame # None =>
        CASE frame[1].phase = "graph" -> frame[1].attempt \in 0..(max_attempts - 1)
          [] frame[1].phase = "catalog" -> frame[1].attempt \in 0..(fallback_attempts - 1)
          [] frame[1].phase = "common" -> frame[1].attempt \in 0..(Len(common_pairs) - 1)
          [] frame[1].phase = "final" -> frame[1].attempt = 0

NoRepeat(seq) == \A i \in 1..Len(seq), j \in 1..Len(seq) : i < j => seq[i] # seq[j]

\* no search between two known words puts a word in its queue twice
EnqueuedOnce ==
    \A s \in Known, t \in Known :
        \A log \in bfs_path_appended(semantic_graph, s, t, PairMaxSteps) : NoRepeat(log)

\* C14: get_random_word_pair always terminates with a result: at most 40
\* attempts over graph words, then at most 20 over the full catalog, then at
\* most one per fixed known-good pair, then the degraded pair; each search
\* terminates because every word is enqueued at most once.
C14_AlwaysResult ==
    /\ [](AttemptsBounded /\ EnqueuedOnce)
    /\ (frame # None) ~> PairReturned

\* C14 as amended: for every non-empty catalog get_random_word_pair
\* terminates with a result, within 40 attempts over graph words, then 20
\* over the full catalog, then one per fixed known-good pair, then the
\* degraded pair, every search enqueueing each word at most once; for an
\* empty catalog the first sampling raises IndexError.
C14_ResultUnlessEmpty ==
    /\ [](AttemptsBounded /\ EnqueuedOnce)
    /\ (frame # None /\ word_database.words # {}) ~> PairReturned
    /\ (frame # None /\ word_database.words = {})
            ~> (ret.op = "get_random_word_pair" /\ ret.raised = Some("IndexError"))

\* a pair returned from the list of known-good pairs after the loops over
\* the graph words and over the catalog ran out
C14_Witness ==
    /\ PairReturned
    /\ ret.phase = "common"
    /\ Cardinality(Known) >= 2

----------------------------------------------------------------------------
(* Claims about get_hint *)

\* get_hint has answered with a hint word
HintGiven == ret.op = "get_hint" /\ ret.word # None

\* C18: for every hint word w and every integer hintLevel, with letters =
\* min(hintLevel, len(w)), the masked form has exactly len(w) characters: the
\* first letters letters of w in upper case followed by one placeholder "_"
\* per remaining letter; fully_revealed is true exactly when letters = len(w).
C18_MaskedForm ==
    HintGiven =>
        LET w == ret.word[1]
            letters == IF ret.hint_level < Len(w) THEN ret.hint_level ELSE Len(w)
        IN /\ Len(ret.masked_word[1]) = Len(w)
           /\ \A i \in 1..Len(w) :
                ret.masked_word[1][i] = IF i <= letters THEN UpperChar(w[i]) ELSE "_"
           /\ ret.fully_revealed <=> letters = Len(w)

\* the words of the request that count as used: the start word and the words
\* of the current path, as Words
UsedWords(start_word, current_path) ==
    LET current_words == parse_current_path(current_path)
    IN { Normalize(start_word) }
         \cup { Normalize(current_words[i]) : i \in 1..Len(current_words) }

\* the player's current position: the last word of the current path, or the
\* start word if the path is empty
CurrentPosition(start_word, current_path) ==
    LET current_words == parse_current_path(current_path)
    IN IF current_words = << >> THEN start_word
       ELSE current_words[Len(current_words)]

\* C19: get_hint computes the shortest path from the player's current
\* position (last word of the current path, or the start word if the path is
\* empty) to the target, and returns as hint word the first word on that path
\* after the current position that is not among the used words (start word
\* plus current path); the hint word is never a used word.
C19_HintIsFirstUnusedWord ==
    [][(ret'.op = "get_hint" /\ ret'.word # None) =>
        LET used == UsedWords(ret'.start_word, ret'.current_path)
            position == CurrentPosition(ret'.start_word, ret'.current_path)
            on_path(p) == { i \in 2..Len(p) : p[i] \notin used }
        IN /\ ret'.word[1] \notin used
           /\ \E p \in find_optimal_path_results(embedding_service, word_database,
                            semantic_graph, position, ret'.target_word, HintMaxSteps) :
                /\ p # None
                /\ Steps(p[1]) = Distance(semantic_graph'.graph, Normalize(position),
                                          Normalize(ret'.target_word))
                /\ on_path(p[1]) # {} =>
                      ret'.word[1] = p[1][CHOOSE i \in on_path(p[1]) :
                                            \A j \in on_path(p[1]) : i <= j]]_vars

\* C27: whenever get_hint returns a hint word, that word is a neighbour in
\* the graph of the player's current position: their similarity is at or
\* above the threshold.
C27_HintIsNeighbour ==
    (ret.op = "get_hint" /\ ret.word # None) =>
        LET position == Normalize(CurrentPosition(ret.start_word, ret.current_path))
        IN /\ ret.word[1] \in GraphGet(semantic_graph.graph, position)
           /\ ModelSimilarity(ret.word[1], position) >= semantic_graph.similarity_threshold

----------------------------------------------------------------------------
(* Further claims about calculate_score *)

\* C24: when the player path passes validate_path and its ends match the
\* start and the target word, the reference path calculate_score computes
\* after the validation is not None and has at most as many steps as the
\* player path, so the score is one of 100, 90, 80, 60 and 50, never 120.
C24_NeverBeatsAlgorithm ==
    (/\ ret.op = "calculate_score"
     /\ PathPasses(ret.player_path)
     /\ EndpointsMatch(ret.player_path, ret.start_word, ret.target_word))
        => /\ ret.algorithm_path # None
           /\ Steps(ret.algorithm_path[1]) <= Steps(ret.player_path)
           /\ ret.score \in {100, 90, 80, 60, 50}

\* a path of four steps given with its start word as 'A ' scored 90 against a
\* reference path of three steps
C24_Witness ==
    /\ ret.op = "calculate_score"
    /\ PathPasses(ret.player_path)
    /\ EndpointsMatch(ret.player_path, ret.start_word, ret.target_word)
    /\ ret.start_word # ret.player_path[1]
    /\ ret.algorithm_path # None
    /\ Steps(ret.player_path) = 4
    /\ Steps(ret.algorithm_path[1]) = 3
    /\ ret.score = 90

----------------------------------------------------------------------------
(* Claims about get_game_service *)

\* C22: however the first requests of concurrent threads interleave,
\* get_game_service constructs at most one GameService, and every caller
\* receives that same object.
C22_OneGameService ==
    /\ routes.constructed <= 1
    /\ \A t \in Threads, u \in Threads :
          (routes.pc[t] = "done" /\ routes.pc[u] = "done")
              => routes.returned[t] = routes.returned[u]

----------------------------------------------------------------------------
(* Claims about the words the game service hands out *)

\* C26: after any sequence of find_optimal_path, validate_path,
\* calculate_score, get_word_similarity and get_random_word_pair calls on a
\* preloaded service, both words get_random_word_pair returns are catalog
\* words, and every word on a path find_optimal_path returns is a catalog
\* word.
C26_OnlyCatalogWords ==
    /\ (ret.op = "get_random_word_pair" /\ ret.result # None)
          => /\ ret.result[1][1] \in word_database.words
             /\ ret.result[1][2] \in word_database.words
    /\ (ret.op = "find_optimal_path" /\ ret.result # None)
          => \A i \in 1..Len(ret.result[1]) : ret.result[1][i] \in word_database.words

====
